---- MODULE Spec2Model ----
(***************************************************************************)
(* Model of packages/presets/client/src/typescript-ast-visitor/index.ts:   *)
(* the bottom-up fold (graphql-js `visit` with leave callbacks) of a       *)
(* schema document into TypeScript declarations, and the assembly of the   *)
(* plugin output.  JavaScript strings are TLA+ strings, character for      *)
(* character; every leave callback is one action.                          *)
(***************************************************************************)
EXTENDS Integers, Sequences, FiniteSets, TLC

VARIABLES doc, config, todo, status, definitions, defEdit, memberEdit, argEdit,
          dirEdit, typeEdit, output

vars == <<doc, config, todo, status, definitions, defEdit, memberEdit, argEdit,
          dirEdit, typeEdit, output>>

(***************************************************************************)
(* Bounds of the input family.                                             *)
(***************************************************************************)
\* definitions per document
MaxDefs == 2
\* fields per type definition
MaxFields == 2
\* list levels in a type reference
MaxNest == 2

(***************************************************************************)
(* JavaScript string primitives.                                           *)
(***************************************************************************)
StartsWith(s, p) == Len(s) >= Len(p) /\ SubSeq(s, 1, Len(p)) = p

EndsWith(s, p) == Len(s) >= Len(p) /\ SubSeq(s, Len(s) - Len(p) + 1, Len(s)) = p

\* s.includes(p)
Includes(s, p) == \E i \in 1..(Len(s) - Len(p) + 1) : SubSeq(s, i, i + Len(p) - 1) = p

\* the first index at which p occurs in s at or after from, 0 when there is none
IndexOf(s, p, from) ==
  LET hits == {i \in from..(Len(s) - Len(p) + 1) : SubSeq(s, i, i + Len(p) - 1) = p}
  IN IF hits = {} THEN 0 ELSE CHOOSE i \in hits : \A j \in hits : i <= j

RECURSIVE Join(_, _)
\* Array.prototype.join
Join(parts, sep) ==
  IF parts = <<>> THEN ""
  ELSE IF Len(parts) = 1 THEN parts[1]
  ELSE parts[1] \o sep \o Join(Tail(parts), sep)

RECURSIVE Split(_, _)
\* String.prototype.split with a non-empty separator
Split(s, sep) ==
  LET i == IndexOf(s, sep, 1)
  IN IF i = 0 THEN <<s>>
     ELSE <<SubSeq(s, 1, i - 1)>> \o Split(SubSeq(s, i + Len(sep), Len(s)), sep)

RECURSIVE Flatten(_)
\* the concatenation of a sequence of sequences
Flatten(ss) == IF ss = <<>> THEN <<>> ELSE Head(ss) \o Flatten(Tail(ss))

\* Array.prototype.filter
Filter(seq, Keep(_)) == SelectSeq(seq, Keep)

Truthy(s) == s # ""

\* what JavaScript gives for String(obj) of a plain object
ObjectString == "[object Object]"

\* what JavaScript gives for a property read on a string primitive
Undefined == "\\undefined"

\* str.replace(/W(.*?)>$/, '$1') for the literal prefix W (`Maybe<` or
\* `InputMaybe<`): the leftmost place where W occurs with the string ending
\* in `>` after it and no line break between them; the match runs to the end
\* of the string and is replaced by what stands between W and the last `>`.
ReplaceWrapper(s, w) ==
  LET ok(i) == /\ Len(s) >= i + Len(w)
               /\ SubSeq(s, i, i + Len(w) - 1) = w
               /\ SubSeq(s, Len(s), Len(s)) = ">"
               /\ ~Includes(SubSeq(s, i + Len(w), Len(s) - 1), "\n")
      hits == {i \in 1..Len(s) : ok(i)}
  IN IF hits = {} THEN s
     ELSE LET i == CHOOSE x \in hits : \A y \in hits : x <= y
          IN SubSeq(s, 1, i - 1) \o SubSeq(s, i + Len(w), Len(s) - 1)

\* str.replace(/ +\n/g, '\n')
StripTrailingSpaces(s) ==
  LET lines == Split(s, "\n")
      RECURSIVE Rstrip(_)
      Rstrip(l) == IF EndsWith(l, " ") THEN Rstrip(SubSeq(l, 1, Len(l) - 1)) ELSE l
      n == Len(lines)
  IN Join([i \in 1..n |-> IF i < n THEN Rstrip(lines[i]) ELSE lines[i]], "\n")

(***************************************************************************)
(* The plugin configuration (TypeScriptPluginConfig).  An option that is   *)
(* not set is FALSE, "" or {}.  enumPrefix is "undefined", "true" or       *)
(* "false"; avoidOptionals is undefined, the boolean true, or an object.   *)
(***************************************************************************)
NoAvoidOptionals ==
  [tag |-> "undefined", field |-> FALSE, inputValue |-> FALSE, defaultValue |-> FALSE]

DefaultConfig ==
  [ onlyEnums |-> FALSE, onlyOperationTypes |-> FALSE, skipTypename |-> FALSE,
    nonOptionalTypename |-> FALSE, immutableTypes |-> FALSE, noExport |-> FALSE,
    addUnderscoreToArgsType |-> FALSE, futureProofUnions |-> FALSE,
    wrapFieldDefinitions |-> FALSE, wrapEntireFieldDefinitions |-> FALSE,
    fieldWrapperValue |-> "", entireFieldWrapperValue |-> "",
    maybeValue |-> "", inputMaybeValue |-> "",
    enumPrefix |-> "undefined", typesPrefix |-> "",
    avoidOptionals |-> NoAvoidOptionals,
    directiveArgumentAndInputFieldMappings |-> {} ]

ConfigPool ==
  { DefaultConfig,
    [DefaultConfig EXCEPT !.onlyEnums = TRUE],
    [DefaultConfig EXCEPT !.onlyOperationTypes = TRUE],
    [DefaultConfig EXCEPT !.skipTypename = TRUE],
    [DefaultConfig EXCEPT !.nonOptionalTypename = TRUE],
    [DefaultConfig EXCEPT !.immutableTypes = TRUE],
    [DefaultConfig EXCEPT !.noExport = TRUE],
    [DefaultConfig EXCEPT !.addUnderscoreToArgsType = TRUE],
    [DefaultConfig EXCEPT !.futureProofUnions = TRUE],
    [DefaultConfig EXCEPT !.wrapFieldDefinitions = TRUE],
    [DefaultConfig EXCEPT !.wrapFieldDefinitions = TRUE, !.fieldWrapperValue = "T"],
    [DefaultConfig EXCEPT !.wrapEntireFieldDefinitions = TRUE],
    [DefaultConfig EXCEPT !.typesPrefix = "P"],
    [DefaultConfig EXCEPT !.typesPrefix = "P", !.enumPrefix = "false"],
    [DefaultConfig EXCEPT !.avoidOptionals = [NoAvoidOptionals EXCEPT !.tag = "true"]],
    [DefaultConfig EXCEPT !.avoidOptionals =
        [NoAvoidOptionals EXCEPT !.tag = "object", !.field = TRUE]],
    [DefaultConfig EXCEPT !.avoidOptionals =
        [NoAvoidOptionals EXCEPT !.tag = "object", !.inputValue = TRUE]],
    [DefaultConfig EXCEPT !.avoidOptionals =
        [NoAvoidOptionals EXCEPT !.tag = "object", !.defaultValue = TRUE]],
    [DefaultConfig EXCEPT !.directiveArgumentAndInputFieldMappings = {"x"}] }

(***************************************************************************)
(* The schema document (the AST `visit` walks).  A type reference is the   *)
(* chain of its ListType / NonNullType nodes, outermost first, over the    *)
(* name of its NamedType.  A description of "" is no description.          *)
(***************************************************************************)
Type(wraps, name) == [wraps |-> wraps, name |-> name]

\* node.type.kind of the original node
TypeKind(t) == IF t.wraps = <<>> THEN "NamedType" ELSE Head(t.wraps) \o "Type"

RECURSIVE WrapChains(_)
\* the chains with at most n list levels (a non-null never wraps a non-null)
WrapChains(n) ==
  IF n = 0 THEN {<<>>, <<"NonNull">>}
  ELSE LET inner == WrapChains(n - 1)
       IN inner \cup {<<"List">> \o c : c \in inner}
                \cup {<<"NonNull", "List">> \o c : c \in inner}

Directive(name, arguments) == [name |-> name, arguments |-> arguments]

StringArgument(name, value) ==
  [name |-> name, value |-> [kind |-> "StringValue", value |-> value]]

\* a FieldDefinition or an InputValueDefinition
Member(name, type, arguments, directives, description, hasDefault) ==
  [ name |-> name, type |-> type, arguments |-> arguments, directives |-> directives,
    description |-> description, hasDefault |-> hasDefault ]

Plain(name, type) == Member(name, type, <<>>, <<>>, "", FALSE)

Definition(kind, name, interfaces, fields, types, oneOf, description) ==
  [ kind |-> kind, name |-> name, interfaces |-> interfaces, fields |-> fields,
    types |-> types, oneOf |-> oneOf, description |-> description,
    values |-> IF kind = "EnumTypeDefinition" THEN <<"A">> ELSE <<>>,
    locations |-> IF kind = "DirectiveDefinition" THEN <<"FIELD_DEFINITION">> ELSE <<>> ]

IntT == Type(<<>>, "Int")

IntNN == Type(<<"NonNull">>, "Int")

MemberNames == <<"a", "b", "c", "d">>

Deprecated == Directive("deprecated", <<>>)

DeprecatedBecause == Directive("deprecated", <<StringArgument("reason", "r")>>)

\* the types a member is given: every chain over Int, and the bare and the
\* non-null reference to an enum, an object type, and a name nothing declares
RichTypes ==
  {Type(c, "Int") : c \in WrapChains(MaxNest)}
    \cup {Type(c, n) : c \in {<<>>, <<"NonNull">>}, n \in {"E", "T", "Z"}}

\* argument lists of a field
ArgumentLists ==
  { <<Plain("x", IntT)>>,
    <<Plain("x", IntNN)>>,
    <<Member("x", IntNN, <<>>, <<>>, "", TRUE)>>,
    <<Member("x", IntT, <<>>, <<Deprecated>>, "", FALSE)>>,
    <<Plain("x", IntT), Plain("y", Type(<<"List">>, "Int"))>> }

\* the field of a type at position i in its plain forms
CoreMembers(i, withArgs) ==
  { Plain(MemberNames[i], IntT), Plain(MemberNames[i], IntNN) }
    \cup (IF withArgs
          THEN {Member(MemberNames[i], IntT, <<Plain("x", IntT)>>, <<>>, "", FALSE)}
          ELSE {})

\* a single member in every form the fold distinguishes
RichMembers(withArgs) ==
  {Plain("a", t) : t \in RichTypes}
    \cup {Member("a", IntT, <<>>, <<d>>, "", FALSE) :
             d \in {Deprecated, DeprecatedBecause, Directive("x", <<>>)}}
    \cup {Member("a", IntT, <<>>, <<Deprecated, Directive("x", <<>>)>>, "d", FALSE)}
    \cup {Member("a", IntT, <<>>, <<>>, "d", FALSE),
          Member("a", IntT, <<>>, <<>>, "d\ne", FALSE)}
    \cup (IF withArgs
          THEN {Member(n, IntT, args, <<>>, "", FALSE) :
                   n \in {"a", "I"}, args \in ArgumentLists}
          ELSE {Member("a", t, <<>>, <<>>, "", TRUE) : t \in {IntT, IntNN}})

RECURSIVE CoreLists(_, _)
\* the member lists of length n over the plain forms
CoreLists(n, withArgs) ==
  IF n = 0 THEN {<<>>}
  ELSE {l \o <<m>> : l \in CoreLists(n - 1, withArgs), m \in CoreMembers(n, withArgs)}

MemberLists(withArgs) ==
  UNION {CoreLists(n, withArgs) : n \in 0..MaxFields}
    \cup {<<m>> : m \in RichMembers(withArgs)}

InterfaceLists == {<<>>, <<"N">>, <<"N", "M">>}

ObjectDefs ==
  {Definition("ObjectTypeDefinition", "T", <<>>, fs, <<>>, FALSE, "") :
      fs \in MemberLists(TRUE)}
    \cup {Definition("ObjectTypeDefinition", "T", is, fs, <<>>, FALSE, "") :
            is \in InterfaceLists \ {<<>>}, fs \in CoreLists(0, TRUE) \cup CoreLists(1, TRUE)}
    \cup {Definition("ObjectTypeDefinition", "T", <<"N">>,
                     <<Member("a", IntT, <<Plain("x", IntT)>>, <<>>, "", FALSE)>>,
                     <<>>, FALSE, "dT")}

InterfaceDefs ==
  {Definition("InterfaceTypeDefinition", "N", <<>>, fs, <<>>, FALSE, "") :
      fs \in MemberLists(TRUE)}

InputDefs ==
  {Definition("InputObjectTypeDefinition", "I", <<>>, fs, <<>>, oneOf, "") :
      fs \in MemberLists(FALSE), oneOf \in BOOLEAN}

OtherDefs ==
  { Definition("UnionTypeDefinition", "U", <<>>, <<>>, <<"T">>, FALSE, ""),
    Definition("UnionTypeDefinition", "U", <<>>, <<>>, <<"T", "DT">>, FALSE, "dU"),
    Definition("ScalarTypeDefinition", "DT", <<>>, <<>>, <<>>, FALSE, ""),
    Definition("EnumTypeDefinition", "E", <<>>, <<>>, <<>>, FALSE, ""),
    Definition("EnumTypeDefinition", "Int", <<>>, <<>>, <<>>, FALSE, ""),
    Definition("SchemaDefinition", "", <<>>, <<>>, <<"T">>, FALSE, ""),
    Definition("DirectiveDefinition", "x", <<>>, <<>>, <<>>, FALSE, ""),
    Definition("DirectiveDefinition", "I", <<>>, <<Plain("a", IntT)>>, <<>>, FALSE, ""),
    Definition("DirectiveDefinition", "I", <<>>, <<Plain("a", IntNN)>>, <<>>, FALSE, "") }

DefPool == ObjectDefs \cup InterfaceDefs \cup InputDefs \cup OtherDefs

\* the definitions that documents of several definitions are put together from
SmallPool ==
  { Definition("ObjectTypeDefinition", "T", <<>>, <<Plain("a", Type(<<>>, "E"))>>,
               <<>>, FALSE, ""),
    Definition("ObjectTypeDefinition", "T", <<>>, <<Plain("a", IntT)>>, <<>>, FALSE, ""),
    Definition("ObjectTypeDefinition", "T", <<>>,
               <<Member("I", IntT, <<Plain("x", IntT)>>, <<>>, "", FALSE)>>,
               <<>>, FALSE, ""),
    Definition("InputObjectTypeDefinition", "I", <<>>,
               <<Plain("a", IntT), Plain("b", IntT)>>, <<>>, TRUE, ""),
    Definition("InputObjectTypeDefinition", "I", <<>>,
               <<Plain("a", IntT), Plain("b", IntNN)>>, <<>>, TRUE, ""),
    Definition("EnumTypeDefinition", "E", <<>>, <<>>, <<>>, FALSE, ""),
    Definition("EnumTypeDefinition", "Int", <<>>, <<>>, <<>>, FALSE, ""),
    Definition("ScalarTypeDefinition", "DT", <<>>, <<>>, <<>>, FALSE, ""),
    Definition("UnionTypeDefinition", "U", <<>>, <<>>, <<"T", "DT">>, FALSE, ""),
    Definition("DirectiveDefinition", "I", <<>>, <<Plain("a", IntNN)>>, <<>>, FALSE, "") }

RECURSIVE SmallDocs(_)
SmallDocs(n) ==
  IF n = 0 THEN {<<>>}
  ELSE {ds \o <<d>> : ds \in SmallDocs(n - 1), d \in SmallPool}

TypeKinds ==
  { "ObjectTypeDefinition", "InterfaceTypeDefinition", "UnionTypeDefinition",
    "InputObjectTypeDefinition", "ScalarTypeDefinition", "EnumTypeDefinition" }

\* a schema is built from the document only when no two types share a name
DistinctTypeNames(ds) ==
  \A i, j \in 1..Len(ds) :
     (i # j /\ ds[i].kind \in TypeKinds /\ ds[j].kind \in TypeKinds)
        => ds[i].name # ds[j].name

Documents ==
  {<<d>> : d \in DefPool}
    \cup {ds \in UNION {SmallDocs(n) : n \in 2..MaxDefs} : DistinctTypeNames(ds)}

(***************************************************************************)
(* The collaborators the fold reads: the type registry (_schema.getType),  *)
(* the scalar map (buildScalarsFromConfig) and graphql-js `visit`.         *)
(***************************************************************************)
NoType == Definition("", "", <<>>, <<>>, <<>>, FALSE, "")

\* _schema.getType(name); NoType stands for undefined
GetType(schemaDoc, name) ==
  LET hits == {i \in 1..Len(schemaDoc) :
                 schemaDoc[i].kind \in TypeKinds /\ schemaDoc[i].name = name}
  IN IF hits = {} THEN NoType ELSE schemaDoc[CHOOSE i \in hits : TRUE]

isEnumType(t) == t.kind = "EnumTypeDefinition"

isOneOfInputObjectType(t) == t.kind = "InputObjectTypeDefinition" /\ t.oneOf

\* Object.keys(parentType.getFields())
FieldNames(t) == [i \in 1..Len(t.fields) |-> t.fields[i].name]

DefaultScalars ==
  << [name |-> "ID", type |-> "string"], [name |-> "String", type |-> "string"],
     [name |-> "Boolean", type |-> "boolean"], [name |-> "Int", type |-> "number"],
     [name |-> "Float", type |-> "number"] >>

\* the scalar map: the built-in scalars, then the scalar types of the schema
ScalarsMap(schemaDoc) ==
  LET customs == SelectSeq(schemaDoc, LAMBDA d : d.kind = "ScalarTypeDefinition")
  IN DefaultScalars \o [i \in 1..Len(customs) |-> [name |-> customs[i].name, type |-> "any"]]

\* scalars[typename] is set
IsScalarKey(schemaDoc, name) ==
  \E i \in 1..Len(ScalarsMap(schemaDoc)) : ScalarsMap(schemaDoc)[i].name = name

\* One leave step of `visit`: the callback h (or "Unvisited", a node kind
\* that has no callback) on the node at definition d, member f, argument a,
\* position k of the list or chain it stands in, position j below that.
Ev(h, d, f, a, k, j, slot) ==
  [h |-> h, d |-> d, f |-> f, a |-> a, k |-> k, j |-> j, slot |-> slot]

\* a type reference is left from its NamedType outwards
TypeEvents(t, d, f, a) ==
  LET n == Len(t.wraps)
  IN << Ev("Name", d, f, a, 0, 0, "type"), Ev("NamedType", d, f, a, 0, 0, "type") >>
       \o [i \in 1..n |-> Ev(t.wraps[n - i + 1] \o "Type", d, f, a, n - i + 1, 0, "type")]

DirectiveEvents(dir, d, f, a, k) ==
  << Ev("Name", d, f, a, k, 0, "directive") >>
    \o [j \in 1..Len(dir.arguments) |-> Ev("Name", d, f, a, k, j, "directiveArgument")]
    \o << Ev("Unvisited", d, f, a, k, 0, "Directive") >>

DirectivesEvents(dirs, d, f, a) ==
  Flatten([k \in 1..Len(dirs) |-> DirectiveEvents(dirs[k], d, f, a, k)])

\* InputValueDefinition: name, type, defaultValue, directives
ArgumentEvents(m, d, f, a) ==
  << Ev("Name", d, f, a, 0, 0, "argument") >>
    \o TypeEvents(m.type, d, f, a)
    \o DirectivesEvents(m.directives, d, f, a)
    \o << Ev("InputValueDefinition", d, f, a, 0, 0, "") >>

\* FieldDefinition: name, arguments, type, directives
MemberEvents(m, d, f, h) ==
  << Ev("Name", d, f, 0, 0, 0, "member") >>
    \o Flatten([a \in 1..Len(m.arguments) |-> ArgumentEvents(m.arguments[a], d, f, a)])
    \o TypeEvents(m.type, d, f, 0)
    \o DirectivesEvents(m.directives, d, f, 0)
    \o << Ev(h, d, f, 0, 0, 0, "") >>

MembersEvents(def, d, h) ==
  Flatten([f \in 1..Len(def.fields) |-> MemberEvents(def.fields[f], d, f, h)])

\* the NamedType nodes a definition lists (interfaces, union members)
ReferenceEvents(names, d, slot) ==
  Flatten([k \in 1..Len(names) |->
             << Ev("Name", d, 0, 0, k, 0, slot), Ev("NamedType", d, 0, 0, k, 0, slot) >>])

DefinitionEvents(def, d) ==
  LET named == << Ev("Name", d, 0, 0, 0, 0, "definition") >>
      leave == << Ev(def.kind, d, 0, 0, 0, 0, "") >>
  IN CASE def.kind \in {"ObjectTypeDefinition", "InterfaceTypeDefinition"} ->
            named \o ReferenceEvents(def.interfaces, d, "interface")
                  \o MembersEvents(def, d, "FieldDefinition") \o leave
       [] def.kind = "InputObjectTypeDefinition" ->
            named \o MembersEvents(def, d, "InputValueDefinition") \o leave
       [] def.kind = "UnionTypeDefinition" ->
            named \o ReferenceEvents(def.types, d, "unionMember") \o leave
       [] def.kind = "ScalarTypeDefinition" -> named \o leave
       [] def.kind = "EnumTypeDefinition" ->
            named
              \o Flatten([k \in 1..Len(def.values) |->
                            << Ev("Name", d, 0, 0, k, 0, "enumValue"),
                               Ev("Unvisited", d, 0, 0, k, 0, "EnumValueDefinition") >>])
              \o << Ev("Unvisited", d, 0, 0, 0, 0, "EnumTypeDefinition") >>
       [] def.kind = "SchemaDefinition" ->
            Flatten([k \in 1..Len(def.types) |->
                       << Ev("Name", d, 0, 0, k, 0, "operationType"),
                          Ev("NamedType", d, 0, 0, k, 0, "operationType"),
                          Ev("Unvisited", d, 0, 0, k, 0, "OperationTypeDefinition") >>])
              \o leave
       [] def.kind = "DirectiveDefinition" ->
            named \o MembersEvents(def, d, "InputValueDefinition")
                  \o [k \in 1..Len(def.locations) |-> Ev("Name", d, 0, 0, k, 0, "location")]
                  \o leave

\* the leave steps of the whole document, in the order `visit` takes them
Events(schemaDoc) ==
  Flatten([d \in 1..Len(schemaDoc) |-> DefinitionEvents(schemaDoc[d], d)])

\* An entry of the `ancestors` array: a node (its kind, its name.value) or
\* an array of nodes (the kinds of its elements).
NodeEntry(kind, name) == [array |-> FALSE, kind |-> kind, kinds |-> <<>>, name |-> name]

ArrayEntry(kinds) == [array |-> TRUE, kind |-> "", kinds |-> kinds, name |-> ""]

MemberKind(def) ==
  IF def.kind \in {"ObjectTypeDefinition", "InterfaceTypeDefinition"}
    THEN "FieldDefinition" ELSE "InputValueDefinition"

\* `ancestors` as the leave callback of step e receives it: the enclosing
\* nodes and arrays from the document down to the parent of e's parent
Ancestors(schemaDoc, e) ==
  LET def == schemaDoc[e.d]
      top == << NodeEntry("Document", "") >>
      defsArr == ArrayEntry([i \in 1..Len(schemaDoc) |-> schemaDoc[i].kind])
      defNode == NodeEntry(def.kind, def.name)
      membersArr == ArrayEntry([i \in 1..Len(def.fields) |-> MemberKind(def)])
      member == def.fields[e.f]
      memberNode == NodeEntry(MemberKind(def), member.name)
      argsArr == ArrayEntry([i \in 1..Len(member.arguments) |-> "InputValueDefinition"])
      argNode == NodeEntry("InputValueDefinition", member.arguments[e.a].name)
      type == IF e.a > 0 THEN member.arguments[e.a].type ELSE member.type
      \* the type nodes above position k of the chain (k = 0: the NamedType)
      above == LET n == IF e.k = 0 THEN Len(type.wraps) ELSE e.k - 1
               IN [i \in 1..n |-> NodeEntry(type.wraps[i] \o "Type", "")]
      \* the chain down to the parent, the parent included
      chain ==
        CASE e.slot = "type" /\ e.h # "Name" /\ e.a > 0 ->
               top \o <<defsArr, defNode, membersArr, memberNode, argsArr, argNode>> \o above
          [] e.slot = "type" /\ e.h # "Name" /\ e.a = 0 ->
               top \o <<defsArr, defNode, membersArr, memberNode>> \o above
          [] e.h = "InputValueDefinition" /\ e.a > 0 ->
               top \o <<defsArr, defNode, membersArr, memberNode, argsArr>>
          [] e.h \in {"InputValueDefinition", "FieldDefinition"} /\ e.a = 0 ->
               top \o <<defsArr, defNode, membersArr>>
          [] e.h = "NamedType" /\ e.slot = "interface" ->
               top \o <<defsArr, defNode, ArrayEntry([i \in 1..Len(def.interfaces) |-> "NamedType"])>>
          [] e.h = "NamedType" /\ e.slot = "unionMember" ->
               top \o <<defsArr, defNode, ArrayEntry([i \in 1..Len(def.types) |-> "NamedType"])>>
          [] e.h = "NamedType" /\ e.slot = "operationType" ->
               top \o <<defsArr, defNode,
                        ArrayEntry([i \in 1..Len(def.types) |-> "OperationTypeDefinition"]),
                        NodeEntry("OperationTypeDefinition", "")>>
          [] OTHER -> top \o <<defsArr>>
  IN SubSeq(chain, 1, Len(chain) - 1)

(***************************************************************************)
(* Values of the folded tree.  Name.leave replaces a Name node by its      *)
(* string, so a `name` slot holds either; ValueOf is the property read     *)
(* `.value`, AsString the string interpolation.                            *)
(***************************************************************************)
NameNode(value) == [kind |-> "Name", value |-> value]

FoldedName(value) == [kind |-> "string", value |-> value]

ValueOf(n) == IF n.kind = "Name" THEN n.value ELSE Undefined

AsString(n) == IF n.kind = "string" THEN n.value ELSE ObjectString

(***************************************************************************)
(* @graphql-codegen/visitor-plugin-common: transformComment and            *)
(* DeclarationBlock, as index.ts uses them.                                *)
(***************************************************************************)
RECURSIVE indent(_, _)
indent(str, count) == IF count = 0 THEN str ELSE "  " \o indent(str, count - 1)

transformComment(comment, indentLevel) ==
  IF comment = "" THEN ""
  ELSE LET escaped == Join(Split(comment, "*/"), "*\\/")
           lines == Split(escaped, "\n")
       IN IF Len(lines) = 1
            THEN indent("/** " \o lines[1] \o " */\n", indentLevel)
            ELSE LET all == <<"/**">> \o [i \in 1..Len(lines) |-> " * " \o lines[i]]
                               \o <<" */\n">>
                 IN StripTrailingSpaces(
                      Join([i \in 1..Len(all) |-> indent(all[i], indentLevel)], "\n"))

\* new DeclarationBlock({ignoreExport}).export().asKind(kind).withName(name)
\*   .withComment(description), then withContent / withBlock
DeclarationBlock(cfg, kind, name, description, content, block) ==
  [ export |-> ~cfg.noExport, kind |-> kind, name |-> name,
    comment |-> transformComment(description, 0), content |-> content, block |-> block ]

\* DeclarationBlock.string
DeclarationBlockString(b) ==
  LET head == (IF b.export THEN "export " ELSE "") \o b.kind \o " "
                \o (IF b.name # "" THEN b.name \o " " ELSE "")
                \o (IF b.kind = "type" THEN "= " ELSE "")
      body == IF b.block # "" THEN b.content \o Join(<<"{", b.block, "}">>, "\n")
              ELSE IF b.content # "" THEN b.content
              ELSE "{}"
  IN StripTrailingSpaces(
       b.comment \o head \o body \o (IF b.kind = "interface" THEN "" ELSE ";") \o "\n")

(***************************************************************************)
(* The functions of index.ts.                                              *)
(***************************************************************************)
\* directive: a folded Directive node
getDeprecationReason(directive) ==
  IF AsString(directive.name) = "deprecated" /\ directive.name.kind = "string"
    THEN IF Len(directive.arguments) > 0
           THEN directive.arguments[1].value.kind
           ELSE "Field no longer supported"
    ELSE "undefined"

\* node: a folded FieldDefinition or InputValueDefinition; its description
\* is a StringValue node (or undefined), which no callback folds
getNodeComment(node) ==
  LET hits == {i \in 1..Len(node.directives) :
                 ValueOf(node.directives[i].name) = "deprecated"}
      commentText ==
        IF hits = {} THEN node.description
        ELSE LET deprecationDirective ==
                   node.directives[CHOOSE i \in hits : \A j \in hits : i <= j]
             IN (IF node.description # "" THEN ObjectString \o "\n" ELSE "")
                  \o "@deprecated " \o getDeprecationReason(deprecationDirective)
  IN transformComment(commentText, 1)

getKindsFromAncestors(ancestors) ==
  [i \in 1..Len(ancestors) |->
     IF ancestors[i].array
       THEN [array |-> TRUE, kind |-> "", kinds |-> ancestors[i].kinds]
       ELSE [array |-> FALSE, kind |-> ancestors[i].kind, kinds |-> <<>>]]

\* kinds.includes(kind): an element that is itself an array equals no kind
KindsInclude(kinds, kind) ==
  \E i \in 1..Len(kinds) : ~kinds[i].array /\ kinds[i].kind = kind

\* MaybeString that knows the output wrapper only
MaybeStringOutputOnly(ancestors, children) == "Maybe<" \o children \o ">"

MaybeString(ancestors, children) ==
  LET currentVisitContext == getKindsFromAncestors(ancestors)
      isInputContext == KindsInclude(currentVisitContext, "InputObjectTypeDefinition")
  IN IF isInputContext THEN "InputMaybe<" \o children \o ">"
     ELSE "Maybe<" \o children \o ">"

NoOptions ==
  [useTypesPrefix |-> "undefined", useTypesSuffix |-> "undefined",
   typesPrefix |-> "", typesSuffix |-> ""]

\* name: the name of the node (or the string) that is converted;
\* convertFactory({namingConvention: 'keep'}) joins prefix, name and suffix
convertName(name, options) ==
  LET useTypesPrefix == options.useTypesPrefix # "false"
      useTypesSuffix == options.useTypesSuffix # "false"
      convert == options.typesPrefix \o name \o options.typesSuffix
  IN (IF useTypesPrefix /\ options.typesPrefix # "" THEN options.typesPrefix ELSE "")
       \o convert
       \o (IF useTypesSuffix /\ options.typesSuffix # "" THEN options.typesSuffix ELSE "")

\* mergeInterfaces without the combinator that joins the interfaces to the block
mergeInterfacesBare(interfaces, hasOtherFields) == Join(interfaces, " & ")

mergeInterfaces(interfaces, hasOtherFields) ==
  Join(interfaces, " & ") \o (IF Len(interfaces) # 0 /\ hasOtherFields THEN " & " ELSE "")

\* the content and the block appendInterfacesAndFieldsToBlock gives a block
appendInterfacesAndFieldsToBlock(block, interfaces, fields) ==
  [block EXCEPT !.content = mergeInterfaces(interfaces, Len(fields) > 0),
                !.block = Join(fields, "\n")]

\* getObjectTypeDeclarationBlock that adds __typename whatever skipTypename says
getObjectTypeDeclarationBlockAlwaysTypename(node, originalNode, cfg) ==
  LET optionalTypename == IF cfg.nonOptionalTypename THEN "__typename" ELSE "__typename?"
      allFields ==
        << indent((IF cfg.immutableTypes THEN "readonly " ELSE "")
                    \o optionalTypename \o ": '" \o AsString(node.name) \o "';", 1) >>
          \o node.fields
      interfacesNames ==
        [i \in 1..Len(originalNode.interfaces) |->
           convertName(originalNode.interfaces[i], NoOptions)]
      declarationBlock ==
        DeclarationBlock(cfg, "type", convertName(AsString(node.name), NoOptions),
                         node.description, "", "")
  IN appendInterfacesAndFieldsToBlock(declarationBlock, interfacesNames, allFields)

\* node: the folded definition; originalNode: the definition of the document
getObjectTypeDeclarationBlock(node, originalNode, cfg) ==
  LET optionalTypename == IF cfg.nonOptionalTypename THEN "__typename" ELSE "__typename?"
      allFields ==
        (IF cfg.skipTypename THEN <<>>
         ELSE << indent((IF cfg.immutableTypes THEN "readonly " ELSE "")
                          \o optionalTypename \o ": '" \o AsString(node.name) \o "';", 1) >>)
          \o node.fields
      interfacesNames ==
        [i \in 1..Len(originalNode.interfaces) |->
           convertName(originalNode.interfaces[i], NoOptions)]
      declarationBlock ==
        DeclarationBlock(cfg, "type", convertName(AsString(node.name), NoOptions),
                         node.description, "", "")
  IN appendInterfacesAndFieldsToBlock(declarationBlock, interfacesNames, allFields)

\* node: the definition of the document (not the folded one)
buildArgumentsBlock(node, cfg) ==
  LET fieldsWithArguments == SelectSeq(node.fields, LAMBDA field : Len(field.arguments) > 0)
      one(field) ==
        LET name == node.name \o (IF cfg.addUnderscoreToArgsType THEN "_" ELSE "")
                      \o convertName(field.name,
                                     [NoOptions EXCEPT !.useTypesPrefix = "false",
                                                       !.useTypesSuffix = "false"])
                      \o "Args"
        IN IF cfg.onlyEnums THEN ""
           ELSE DeclarationBlockString(
                  DeclarationBlock(cfg, "type", convertName(name, NoOptions),
                                   node.description, "", ""))
  IN Join([i \in 1..Len(fieldsWithArguments) |-> one(fieldsWithArguments[i])], "\n")

\* getTypeForNode with the enum test ahead of the scalar map
getTypeForNodeEnumFirst(node, cfg, schemaDoc) ==
  LET typename == IF node.name.kind = "string" THEN node.name.value ELSE ValueOf(node.name)
      schemaType == GetType(schemaDoc, typename)
  IN IF isEnumType(schemaType)
       THEN convertName(typename, [NoOptions EXCEPT !.useTypesPrefix = cfg.enumPrefix,
                                                    !.typesPrefix = cfg.typesPrefix])
     ELSE IF IsScalarKey(schemaDoc, typename) THEN "Scalars['" \o typename \o "']"
     ELSE convertName(typename, NoOptions)

\* node: the folded NamedType (its name is a string by then)
getTypeForNode(node, cfg, schemaDoc) ==
  LET typename == IF node.name.kind = "string" THEN node.name.value ELSE ValueOf(node.name)
      schemaType == GetType(schemaDoc, typename)
  IN IF IsScalarKey(schemaDoc, typename) THEN "Scalars['" \o typename \o "']"
     ELSE IF isEnumType(schemaType)
       THEN convertName(typename, [NoOptions EXCEPT !.useTypesPrefix = cfg.enumPrefix,
                                                    !.typesPrefix = cfg.typesPrefix])
     ELSE convertName(typename, NoOptions)

clearOptional(str) ==
  IF StartsWith(str, "Maybe") THEN ReplaceWrapper(str, "Maybe<") ELSE str

\* directives: folded Directive nodes; "" stands for null
getDirectiveOverrideType(directives, cfg) ==
  LET hits == {i \in 1..Len(directives) :
                 AsString(directives[i].name) \in cfg.directiveArgumentAndInputFieldMappings}
  IN IF hits = {} THEN ""
     ELSE LET last == CHOOSE i \in hits : \A j \in hits : j <= i
          IN "DirectiveArgumentAndInputFieldMappings['"
               \o AsString(directives[last].name) \o "']"

EXACT_SIGNATURE ==
  "type Exact<T extends { [key: string]: unknown }> = { [K in keyof T]: T[K] };"

MAKE_OPTIONAL_SIGNATURE ==
  "type MakeOptional<T, K extends keyof T> = Omit<T, K> & { [SubKey in K]?: Maybe<T[SubKey]> };"

MAKE_MAYBE_SIGNATURE ==
  "type MakeMaybe<T, K extends keyof T> = Omit<T, K> & { [SubKey in K]: Maybe<T[SubKey]> };"

getWrapperDefinitions(cfg) ==
  IF cfg.onlyEnums THEN <<>>
  ELSE LET exportPrefix == IF cfg.noExport THEN "" ELSE "export "
           maybeValue == exportPrefix \o "type Maybe<T> = "
                           \o (IF cfg.maybeValue # "" THEN cfg.maybeValue ELSE "T | null")
                           \o ";"
           inputMaybeValue ==
             exportPrefix \o "type InputMaybe<T> = "
               \o (IF cfg.inputMaybeValue # "" THEN cfg.inputMaybeValue ELSE "Maybe<T>")
               \o ";"
       IN << maybeValue, inputMaybeValue, exportPrefix \o EXACT_SIGNATURE,
             exportPrefix \o MAKE_OPTIONAL_SIGNATURE, exportPrefix \o MAKE_MAYBE_SIGNATURE >>
            \o (IF cfg.wrapFieldDefinitions
                  THEN << exportPrefix \o "type FieldWrapper<T> = "
                            \o (IF cfg.fieldWrapperValue # "" THEN cfg.fieldWrapperValue
                                ELSE "undefined") \o ";" >>
                  ELSE <<>>)
            \o (IF cfg.wrapEntireFieldDefinitions
                  THEN << exportPrefix \o "type EntireFieldWrapper<T> = "
                            \o (IF cfg.entireFieldWrapperValue # ""
                                  THEN cfg.entireFieldWrapperValue ELSE "T") \o ";" >>
                  ELSE <<>>)

(***************************************************************************)
(* The leave callbacks of the visitor (index.ts, `visit(...)`).  `node` is *)
(* the node with its folded children, `original` is parent[key].           *)
(***************************************************************************)
\* the result of a callback that may throw
Returned(value) == [raised |-> FALSE, value |-> value]

Thrown == [raised |-> TRUE, value |-> ""]

\* addOptionalSign of InputValueDefinition.leave
InputValueOptionalSign(node, original, cfg) ==
  LET avoidOptionalsConfig ==
        IF cfg.avoidOptionals.tag = "object" THEN cfg.avoidOptionals ELSE NoAvoidOptionals
  IN /\ ~avoidOptionalsConfig.inputValue
     /\ \/ TypeKind(original.type) # "NonNullType"
        \/ (~avoidOptionalsConfig.defaultValue /\ node.hasDefault)

\* `type` of InputValueDefinition.leave: the directive override or node.type
InputValueType(node, cfg) ==
  LET override == getDirectiveOverrideType(node.directives, cfg)
  IN IF cfg.directiveArgumentAndInputFieldMappings # {} /\ override # ""
       THEN override ELSE node.type

buildFieldDefinition(node, original, cfg, isOneOf) ==
  (IF cfg.immutableTypes THEN "readonly " ELSE "") \o AsString(node.name)
    \o (IF InputValueOptionalSign(node, original, cfg) /\ ~isOneOf THEN "?" ELSE "") \o ": "
    \o (IF isOneOf THEN clearOptional(InputValueType(node, cfg))
        ELSE InputValueType(node, cfg))
    \o ";"

\* fieldParts: one part per field of the oneOf type, in its declared order
OneOfFieldParts(node, original, cfg, parentType) ==
  LET fieldNames == FieldNames(parentType)
  IN [i \in 1..Len(fieldNames) |->
        IF fieldNames[i] = AsString(node.name)
          THEN buildFieldDefinition(node, original, cfg, TRUE)
          ELSE (IF cfg.immutableTypes THEN "readonly " ELSE "")
                 \o fieldNames[i] \o "?: never;"]

\* the callback without its check of a non-null member
InputValueDefinitionLeaveUnchecked(node, original, ancestors, cfg, schemaDoc) ==
  LET parentType == GetType(schemaDoc, ancestors[Len(ancestors)].name)
  IN IF isOneOfInputObjectType(parentType)
       THEN Returned(getNodeComment(node)
              \o indent("{ " \o Join(OneOfFieldParts(node, original, cfg, parentType), " ")
                          \o " }", 1))
       ELSE Returned(getNodeComment(node)
                       \o indent(buildFieldDefinition(node, original, cfg, FALSE), 1))

InputValueDefinitionLeave(node, original, ancestors, cfg, schemaDoc) ==
  LET comment == getNodeComment(node)
      realParentDef == ancestors[Len(ancestors)]
      parentType == GetType(schemaDoc, realParentDef.name)
  IN IF isOneOfInputObjectType(parentType)
       THEN IF TypeKind(original.type) = "NonNullType" THEN Thrown
            ELSE Returned(comment
                   \o indent("{ " \o Join(OneOfFieldParts(node, original, cfg, parentType), " ")
                               \o " }", 1))
       ELSE Returned(comment \o indent(buildFieldDefinition(node, original, cfg, FALSE), 1))

NameLeave(node) == node.value

UnionTypeDefinitionLeave(node, original, cfg, schemaDoc) ==
  IF cfg.onlyOperationTypes \/ cfg.onlyEnums THEN ""
  ELSE LET withFutureAddedValue ==
             IF cfg.futureProofUnions
               THEN << IF cfg.immutableTypes THEN "{ readonly __typename?: \"%other\" }"
                       ELSE "{ __typename?: \"%other\" }" >>
               ELSE <<>>
           possibleTypes ==
             Join([i \in 1..Len(original.types) |->
                     IF IsScalarKey(schemaDoc, original.types[i])
                       THEN "Scalars['" \o original.types[i] \o "']"
                       ELSE convertName(original.types[i], NoOptions)]
                    \o withFutureAddedValue, " | ")
       IN DeclarationBlockString(
            DeclarationBlock(cfg, "type", convertName(AsString(node.name), NoOptions),
                             node.description, possibleTypes, ""))

InterfaceTypeDefinitionLeave(node, original, cfg) ==
  IF cfg.onlyOperationTypes \/ cfg.onlyEnums THEN ""
  ELSE LET declarationBlock ==
             DeclarationBlock(cfg, "interface", convertName(AsString(node.name), NoOptions),
                              node.description, "", Join(node.fields, "\n"))
       IN Join(Filter(<<DeclarationBlockString(declarationBlock),
                        buildArgumentsBlock(original, cfg)>>, Truthy), "\n\n")

\* ObjectTypeDefinition.leave that tests onlyOperationTypes alone
ObjectTypeDefinitionLeaveNoOnlyEnums(node, original, cfg) ==
  IF cfg.onlyOperationTypes THEN ""
  ELSE Join(<<DeclarationBlockString(getObjectTypeDeclarationBlock(node, original, cfg)),
              buildArgumentsBlock(original, cfg)>>, "")

ObjectTypeDefinitionLeave(node, original, cfg) ==
  IF cfg.onlyOperationTypes \/ cfg.onlyEnums THEN ""
  ELSE Join(<<DeclarationBlockString(getObjectTypeDeclarationBlock(node, original, cfg)),
              buildArgumentsBlock(original, cfg)>>, "")

\* InputObjectTypeDefinition.leave without the oneOf branch
InputObjectTypeDefinitionLeavePlain(node, cfg, schemaDoc) ==
  IF cfg.onlyEnums THEN ""
  ELSE DeclarationBlockString(
         DeclarationBlock(cfg, "type", convertName(AsString(node.name), NoOptions),
                          node.description, "", Join(node.fields, "\n")))

InputObjectTypeDefinitionLeave(node, cfg, schemaDoc) ==
  IF cfg.onlyEnums THEN ""
  ELSE IF isOneOfInputObjectType(GetType(schemaDoc, AsString(node.name)))
    THEN DeclarationBlockString(
           DeclarationBlock(cfg, "type", convertName(AsString(node.name), NoOptions),
                            node.description, "\n" \o Join(node.fields, "\n  |"), ""))
    ELSE DeclarationBlockString(
           DeclarationBlock(cfg, "type", convertName(AsString(node.name), NoOptions),
                            node.description, "", Join(node.fields, "\n")))

NamedTypeLeave(node, ancestors, cfg, schemaDoc) ==
  LET isVisitingInputType ==
        KindsInclude(getKindsFromAncestors(ancestors), "InputObjectTypeDefinition")
      resolved == getTypeForNode(node, cfg, schemaDoc)
      typeToUse ==
        IF ~isVisitingInputType /\ cfg.fieldWrapperValue # "" /\ cfg.wrapFieldDefinitions
          THEN "FieldWrapper<" \o resolved \o ">" ELSE resolved
  IN MaybeString(ancestors, typeToUse)

ListTypeLeave(node, ancestors) == MaybeString(ancestors, "Array<" \o node.type \o ">")

\* NonNullType.leave that knows the output wrapper only
NonNullTypeLeaveMaybeOnly(node) == clearOptional(node.type)

NonNullTypeLeave(node) ==
  IF StartsWith(node.type, "Maybe") THEN ReplaceWrapper(node.type, "Maybe<")
  ELSE IF StartsWith(node.type, "InputMaybe") THEN ReplaceWrapper(node.type, "InputMaybe<")
  ELSE node.type

FieldDefinitionLeave(node, original, cfg) ==
  LET typeString == IF cfg.wrapFieldDefinitions
                      THEN "EntireFieldWrapper<" \o node.type \o ">" ELSE node.type
      avoidField == cfg.avoidOptionals.tag = "object" /\ cfg.avoidOptionals.field
      addOptionalSign == ~avoidField /\ TypeKind(original.type) # "NonNullType"
      comment == getNodeComment(node)
  IN comment
       \o indent((IF cfg.immutableTypes THEN "readonly " ELSE "") \o AsString(node.name)
                   \o (IF addOptionalSign THEN "?" ELSE "") \o ": " \o typeString \o ";", 1)

(***************************************************************************)
(* The output unit: the scalars container and the directive container are  *)
(* printed by the TypeScript printer, one property per line.               *)
(***************************************************************************)
ScalarsTypeDeclaration(schemaDoc) ==
  LET m == ScalarsMap(schemaDoc)
  IN "/** All built-in and custom scalars, mapped to their actual values */\n"
       \o "export type Scalars = {\n"
       \o Join([i \in 1..Len(m) |-> "  " \o m[i].name \o ": " \o m[i].type \o ";\n"], "")
       \o "};"

DirectivesDeclaration(cfg) ==
  IF cfg.directiveArgumentAndInputFieldMappings = {} THEN ""
  ELSE "// Type overrides using directives\n"
         \o "type DirectiveArgumentAndInputFieldMappings = {\n"
         \o (IF "x" \in cfg.directiveArgumentAndInputFieldMappings
               THEN "  x: string;\n" ELSE "")
         \o "};"

NoOutput == [produced |-> FALSE, prepend |-> <<>>, content |-> ""]

\* the return value of the plugin; no enum, scalar or directive type is
\* imported from another module, and no introspection type is included
PluginOutput(cfg, schemaDoc, visitorDefinitions) ==
  [ produced |-> TRUE,
    prepend |-> Filter(<<"", "">> \o getWrapperDefinitions(cfg), Truthy),
    content |-> Join(Filter(<<ScalarsTypeDeclaration(schemaDoc) \o "\n",
                              DirectivesDeclaration(cfg)>> \o visitorDefinitions,
                            Truthy), "\n") ]

(***************************************************************************)
(* The state machine: `visit` leaves the nodes of the document in          *)
(* post-order.  todo holds the leave steps still to take; the *Edit        *)
(* variables are the folded children gathered so far for the definition,   *)
(* the member (field or input value), the argument, the directive and the  *)
(* type reference being walked; definitions is visitorResult.definitions.  *)
(***************************************************************************)
NoName == [kind |-> "none", value |-> ""]

EmptyDefinition ==
  [name |-> NoName, interfaces |-> <<>>, types |-> <<>>, fields |-> <<>>,
   values |-> <<>>, locations |-> <<>>]

EmptyMember == [name |-> NoName, arguments |-> <<>>, directives |-> <<>>]

EmptyDirective == [name |-> NoName, arguments |-> <<>>]

EmptyType == [name |-> NoName, type |-> ""]

\* a `name` child: the folded string once Name.leave has run
NameSlot(edit, originalName) ==
  IF edit.name.kind = "none" THEN NameNode(originalName) ELSE edit.name

Init ==
  /\ doc \in Documents
  /\ config \in ConfigPool
  /\ todo = Events(doc)
  /\ status = "running"
  /\ definitions = <<>>
  /\ defEdit = EmptyDefinition
  /\ memberEdit = EmptyMember
  /\ argEdit = EmptyMember
  /\ dirEdit = EmptyDirective
  /\ typeEdit = EmptyType
  /\ output = NoOutput

Current == Head(todo)

At(h) == status = "running" /\ todo # <<>> /\ Current.h = h

OriginalDefinition(e) == doc[e.d]

OriginalMember(e) == doc[e.d].fields[e.f]

\* the field or input value that step e is in, or is
OriginalValue(e) ==
  IF e.a > 0 THEN OriginalMember(e).arguments[e.a] ELSE OriginalMember(e)

\* node.value of the Name node that step e leaves
OriginalName(e) ==
  CASE e.slot = "definition" -> OriginalDefinition(e).name
    [] e.slot = "member" -> OriginalMember(e).name
    [] e.slot = "argument" -> OriginalValue(e).name
    [] e.slot = "type" -> OriginalValue(e).type.name
    [] e.slot = "interface" -> OriginalDefinition(e).interfaces[e.k]
    [] e.slot \in {"unionMember", "operationType"} -> OriginalDefinition(e).types[e.k]
    [] e.slot = "directive" -> OriginalValue(e).directives[e.k].name
    [] e.slot = "directiveArgument" -> OriginalValue(e).directives[e.k].arguments[e.j].name
    [] e.slot = "enumValue" -> OriginalDefinition(e).values[e.k]
    [] e.slot = "location" -> OriginalDefinition(e).locations[e.k]

Advance == todo' = Tail(todo) /\ UNCHANGED <<doc, config, status, output>>

\* Name.leave, and the parent slot `visit` writes its result to
LeaveName ==
  /\ At("Name")
  /\ LET e == Current
         result == FoldedName(NameLeave(NameNode(OriginalName(e))))
     IN /\ defEdit' =
             CASE e.slot = "definition" -> [defEdit EXCEPT !.name = result]
               [] e.slot = "location" ->
                    [defEdit EXCEPT !.locations = Append(@, result.value)]
               [] OTHER -> defEdit
        /\ memberEdit' =
             IF e.slot \in {"member", "enumValue"}
               THEN [memberEdit EXCEPT !.name = result] ELSE memberEdit
        /\ argEdit' = IF e.slot = "argument" THEN [argEdit EXCEPT !.name = result] ELSE argEdit
        /\ typeEdit' =
             IF e.slot \in {"type", "interface", "unionMember", "operationType"}
               THEN [typeEdit EXCEPT !.name = result] ELSE typeEdit
        /\ dirEdit' =
             CASE e.slot = "directive" -> [dirEdit EXCEPT !.name = result]
               [] e.slot = "directiveArgument" ->
                    [dirEdit EXCEPT !.arguments =
                       Append(@, [name |-> result,
                                  value |-> OriginalValue(e).directives[e.k].arguments[e.j].value])]
               [] OTHER -> dirEdit
  /\ UNCHANGED definitions
  /\ Advance

\* NamedType.leave; the reference is a member's or an argument's type, or
\* an element of a definition's interfaces / types
LeaveNamedType ==
  /\ At("NamedType")
  /\ LET e == Current
         node == [name |-> NameSlot(typeEdit, OriginalName(e))]
         result == NamedTypeLeave(node, Ancestors(doc, e), config, doc)
     IN /\ typeEdit' = IF e.slot \in {"type", "operationType"}
                         THEN [name |-> NoName, type |-> result] ELSE EmptyType
        /\ defEdit' =
             CASE e.slot = "interface" -> [defEdit EXCEPT !.interfaces = Append(@, result)]
               [] e.slot = "unionMember" -> [defEdit EXCEPT !.types = Append(@, result)]
               [] OTHER -> defEdit
  /\ UNCHANGED <<definitions, memberEdit, argEdit, dirEdit>>
  /\ Advance

LeaveListType ==
  /\ At("ListType")
  /\ typeEdit' = [typeEdit EXCEPT
                    !.type = ListTypeLeave([type |-> typeEdit.type], Ancestors(doc, Current))]
  /\ UNCHANGED <<definitions, defEdit, memberEdit, argEdit, dirEdit>>
  /\ Advance

LeaveNonNullType ==
  /\ At("NonNullType")
  /\ typeEdit' = [typeEdit EXCEPT !.type = NonNullTypeLeave([type |-> typeEdit.type])]
  /\ UNCHANGED <<definitions, defEdit, memberEdit, argEdit, dirEdit>>
  /\ Advance

\* a node kind without a callback: `visit` keeps the copy that carries the
\* folded children; where it is later joined into a string it reads
\* "[object Object]"
LeaveUnvisited ==
  /\ At("Unvisited")
  /\ LET e == Current
     IN CASE e.slot = "Directive" ->
               /\ IF e.a > 0
                    THEN /\ argEdit' = [argEdit EXCEPT !.directives = Append(@, dirEdit)]
                         /\ UNCHANGED memberEdit
                    ELSE /\ memberEdit' = [memberEdit EXCEPT !.directives = Append(@, dirEdit)]
                         /\ UNCHANGED argEdit
               /\ dirEdit' = EmptyDirective
               /\ UNCHANGED <<definitions, defEdit, typeEdit>>
          [] e.slot = "EnumValueDefinition" ->
               /\ defEdit' = [defEdit EXCEPT !.values = Append(@, ObjectString)]
               /\ memberEdit' = EmptyMember
               /\ UNCHANGED <<definitions, argEdit, dirEdit, typeEdit>>
          [] e.slot = "OperationTypeDefinition" ->
               /\ defEdit' = [defEdit EXCEPT !.types = Append(@, ObjectString)]
               /\ typeEdit' = EmptyType
               /\ UNCHANGED <<definitions, memberEdit, argEdit, dirEdit>>
          [] e.slot = "EnumTypeDefinition" ->
               /\ definitions' = Append(definitions, ObjectString)
               /\ defEdit' = EmptyDefinition
               /\ UNCHANGED <<memberEdit, argEdit, dirEdit, typeEdit>>
  /\ Advance

\* the folded FieldDefinition or InputValueDefinition that step e leaves
FoldedValue(e) ==
  LET edit == IF e.a > 0 THEN argEdit ELSE memberEdit
      original == OriginalValue(e)
  IN [ name |-> NameSlot(edit, original.name), type |-> typeEdit.type,
       arguments |-> edit.arguments, directives |-> edit.directives,
       description |-> original.description, hasDefault |-> original.hasDefault ]

\* InputValueDefinition.leave: a field of an input object, an argument of a
\* field, or an argument of a directive definition.  When it throws, the
\* exception leaves `visit` and the plugin: nothing of the walk remains.
LeaveInputValueDefinition ==
  /\ At("InputValueDefinition")
  /\ LET e == Current
         result == InputValueDefinitionLeave(FoldedValue(e), OriginalValue(e),
                                             Ancestors(doc, e), config, doc)
     IN IF result.raised
          THEN /\ status' = "raised"
               /\ definitions' = <<>>
               /\ defEdit' = EmptyDefinition
               /\ memberEdit' = EmptyMember
               /\ argEdit' = EmptyMember
               /\ typeEdit' = EmptyType
               /\ dirEdit' = EmptyDirective
               /\ todo' = <<>>
               /\ UNCHANGED <<doc, config, output>>
          ELSE /\ IF e.a > 0
                    THEN /\ memberEdit' =
                              [memberEdit EXCEPT !.arguments = Append(@, result.value)]
                         /\ argEdit' = EmptyMember
                         /\ UNCHANGED defEdit
                    ELSE /\ defEdit' = [defEdit EXCEPT !.fields = Append(@, result.value)]
                         /\ memberEdit' = EmptyMember
                         /\ UNCHANGED argEdit
               /\ typeEdit' = EmptyType
               /\ UNCHANGED <<definitions, dirEdit>>
               /\ Advance

LeaveFieldDefinition ==
  /\ At("FieldDefinition")
  /\ LET e == Current
         result == FieldDefinitionLeave(FoldedValue(e), OriginalValue(e), config)
     IN defEdit' = [defEdit EXCEPT !.fields = Append(@, result)]
  /\ memberEdit' = EmptyMember
  /\ typeEdit' = EmptyType
  /\ UNCHANGED <<definitions, argEdit, dirEdit>>
  /\ Advance

\* the folded type definition that step e leaves
FoldedDefinition(e) ==
  LET original == OriginalDefinition(e)
  IN [ name |-> NameSlot(defEdit, original.name), interfaces |-> defEdit.interfaces,
       types |-> defEdit.types, fields |-> defEdit.fields,
       description |-> original.description ]

\* a definition is left: its fragment is the next of the folded definitions
Emit(fragment) ==
  /\ definitions' = Append(definitions, fragment)
  /\ defEdit' = EmptyDefinition
  /\ UNCHANGED <<memberEdit, argEdit, dirEdit, typeEdit>>
  /\ Advance

LeaveUnionTypeDefinition ==
  /\ At("UnionTypeDefinition")
  /\ Emit(UnionTypeDefinitionLeave(FoldedDefinition(Current), OriginalDefinition(Current),
                                   config, doc))

LeaveInterfaceTypeDefinition ==
  /\ At("InterfaceTypeDefinition")
  /\ Emit(InterfaceTypeDefinitionLeave(FoldedDefinition(Current),
                                       OriginalDefinition(Current), config))

LeaveScalarTypeDefinition == At("ScalarTypeDefinition") /\ Emit("")

LeaveDirectiveDefinition == At("DirectiveDefinition") /\ Emit("")

LeaveSchemaDefinition == At("SchemaDefinition") /\ Emit("")

LeaveObjectTypeDefinition ==
  /\ At("ObjectTypeDefinition")
  /\ Emit(ObjectTypeDefinitionLeave(FoldedDefinition(Current), OriginalDefinition(Current),
                                    config))

LeaveInputObjectTypeDefinition ==
  /\ At("InputObjectTypeDefinition")
  /\ Emit(InputObjectTypeDefinitionLeave(FoldedDefinition(Current), config, doc))

\* after the walk: the plugin returns prepend and content
Assemble ==
  /\ status = "running"
  /\ todo = <<>>
  /\ output' = PluginOutput(config, doc, definitions)
  /\ status' = "done"
  /\ UNCHANGED <<doc, config, todo, definitions, defEdit, memberEdit, argEdit, dirEdit,
                 typeEdit>>

Next ==
  \/ LeaveName
  \/ LeaveNamedType
  \/ LeaveListType
  \/ LeaveNonNullType
  \/ LeaveUnvisited
  \/ LeaveInputValueDefinition
  \/ LeaveFieldDefinition
  \/ LeaveUnionTypeDefinition
  \/ LeaveInterfaceTypeDefinition
  \/ LeaveScalarTypeDefinition
  \/ LeaveDirectiveDefinition
  \/ LeaveSchemaDefinition
  \/ LeaveObjectTypeDefinition
  \/ LeaveInputObjectTypeDefinition
  \/ Assemble

Spec == Init /\ [][Next]_vars

(***************************************************************************)
(* Reading the rendered text back, for the properties below.               *)
(***************************************************************************)
\* the fold of definition i is not switched off by the configuration
Generated(i) ==
  /\ ~config.onlyEnums
  /\ doc[i].kind \in {"ObjectTypeDefinition", "InterfaceTypeDefinition", "UnionTypeDefinition"}
       => ~config.onlyOperationTypes

\* the lines of a fragment that are member lines: indented, ending in `;`
FieldLines(fragment) ==
  LET lines == Split(fragment, "\n")
  IN {k \in 1..Len(lines) : StartsWith(lines[k], "  ") /\ EndsWith(lines[k], ";")}

\* the arms of a rendered union body: what stands between `=` and the final
\* `;`, cut at the `|` that starts a line
Arms(fragment) ==
  LET from == IndexOf(fragment, "=\n", 1) + 2
  IN Split(SubSeq(fragment, from, Len(fragment) - 2), "\n  |")

IsNonNull(member) == TypeKind(member.type) = "NonNullType"

IsOneOfInput(def) == def.kind = "InputObjectTypeDefinition" /\ def.oneOf

OneOfAllNullable(def) ==
  /\ IsOneOfInput(def)
  /\ Len(def.fields) >= 1
  /\ \A f \in 1..Len(def.fields) : ~IsNonNull(def.fields[f])

\* the InputValueDefinition of member f of definition i has been left
MemberLeft(i, f) ==
  \A k \in 1..Len(todo) :
     ~(todo[k].h = "InputValueDefinition" /\ todo[k].d = i /\ todo[k].f = f /\ todo[k].a = 0)

(***************************************************************************)
(* Properties.                                                             *)
(***************************************************************************)
\* C1: a oneOf input object whose n >= 1 fields are all nullable is rendered
\* as a union of exactly n arms in declaration order; arm j holds field j
\* without the optional marker and every other field g as `g?: never`.
C1_OneOfArms ==
  \A i \in 1..Len(definitions) :
     (OneOfAllNullable(doc[i]) /\ Generated(i)) =>
        LET arms == Arms(definitions[i])
            fields == doc[i].fields
            n == Len(fields)
        IN /\ Len(arms) = n
           /\ \A j \in 1..n :
                /\ Includes(arms[j], "{ ") /\ EndsWith(arms[j], " }")
                /\ \A g \in 1..n :
                     IF g = j
                       THEN /\ Includes(arms[j], " " \o fields[g].name \o ": ")
                            /\ ~Includes(arms[j], " " \o fields[g].name \o "?")
                       ELSE Includes(arms[j], " " \o fields[g].name \o "?: never;")

C1_Witness ==
  \E i \in 1..Len(definitions) :
     OneOfAllNullable(doc[i]) /\ Generated(i) /\ Len(doc[i].fields) = 2

\* C2: once a non-null field of a oneOf input object has been folded the
\* pass has raised, and no output unit (prepend, content) exists.
C2_RaiseWithoutOutput ==
  \A i \in 1..Len(doc) :
     \A f \in 1..Len(doc[i].fields) :
        (IsOneOfInput(doc[i]) /\ IsNonNull(doc[i].fields[f]) /\ MemberLeft(i, f)) =>
           (status = "raised" /\ output = NoOutput)

C2_Witness ==
  /\ status = "raised"
  /\ Len(doc) = 2
  /\ doc[1].kind = "ObjectTypeDefinition"
  /\ IsOneOfInput(doc[2])
  /\ \E f \in 1..Len(doc[2].fields) : IsNonNull(doc[2].fields[f])

\* an object type that implements two interfaces and declares no field
TwoInterfacesNoFields(def) ==
  def.kind = "ObjectTypeDefinition" /\ Len(def.interfaces) = 2 /\ def.fields = <<>>

\* C3 as stated: with __typename enabled, the body is the two interface
\* identifiers joined by ` & ` and no ` & ` follows them.
C3_NoTrailingCombinator ==
  \A i \in 1..Len(definitions) :
     (TwoInterfacesNoFields(doc[i]) /\ Generated(i) /\ ~config.skipTypename) =>
        LET ids == Join(doc[i].interfaces, " & ")
        IN Includes(definitions[i], "= " \o ids) /\ ~Includes(definitions[i], ids \o " & ")

\* C3 amended: with __typename enabled, the body is the two interface
\* identifiers joined by ` & `, one more ` & `, and the block that holds the
\* __typename line alone; with skipTypename there is no block and no
\* combinator after the identifiers.
C3_CombinatorBeforeBlock ==
  \A i \in 1..Len(definitions) :
     (TwoInterfacesNoFields(doc[i]) /\ Generated(i)) =>
        LET ids == Join(doc[i].interfaces, " & ")
        IN IF config.skipTypename
             THEN EndsWith(definitions[i], "= " \o ids \o ";\n")
             ELSE /\ Includes(definitions[i], "= " \o ids \o " & {\n")
                  /\ ~Includes(definitions[i], " & & ")
                  /\ Cardinality(FieldLines(definitions[i])) = 1
                  /\ Includes(definitions[i], "__typename")

C3_Witness ==
  \E i \in 1..Len(definitions) :
     TwoInterfacesNoFields(doc[i]) /\ Generated(i) /\ ~config.skipTypename

IsDeprecated(member) ==
  \E k \in 1..Len(member.directives) : member.directives[k].name = "deprecated"

\* the reason the schema gives for the deprecation of a member
DeprecationReason(member) ==
  LET k == CHOOSE x \in 1..Len(member.directives) : member.directives[x].name = "deprecated"
      dir == member.directives[k]
  IN IF dir.arguments = <<>> THEN "Field no longer supported"
     ELSE dir.arguments[1].value.value

\* C4: a field or input value that carries @deprecated is rendered with a
\* comment holding `@deprecated <reason>`: the fixed text when the directive
\* has no argument, the text of the reason argument otherwise.
C4_DeprecatedComment ==
  \A i \in 1..Len(definitions) :
     (doc[i].kind \in {"ObjectTypeDefinition", "InterfaceTypeDefinition",
                       "InputObjectTypeDefinition"} /\ Generated(i)) =>
        \A f \in 1..Len(doc[i].fields) :
           IsDeprecated(doc[i].fields[f]) =>
              Includes(definitions[i],
                       "@deprecated " \o DeprecationReason(doc[i].fields[f]))

\* C5: each field of an object or interface type that declares arguments
\* gets one declaration <type><_?><field>Args whose body lists the rendered
\* arguments, one entry per argument.
C5_ArgsDeclarationBody ==
  \A i \in 1..Len(definitions) :
     (doc[i].kind \in {"ObjectTypeDefinition", "InterfaceTypeDefinition"} /\ Generated(i)) =>
        \A f \in 1..Len(doc[i].fields) :
           LET field == doc[i].fields[f]
               name == doc[i].name \o (IF config.addUnderscoreToArgsType THEN "_" ELSE "")
                         \o field.name \o "Args"
               at == IndexOf(definitions[i], "type " \o name \o " = {\n", 1)
           IN Len(field.arguments) > 0 =>
                /\ at > 0
                /\ \A a \in 1..Len(field.arguments) :
                     IndexOf(definitions[i], "\n  " \o field.arguments[a].name, at) > 0

HelperTypeNames ==
  { "type Maybe<", "type InputMaybe<", "type Exact<", "type MakeOptional<",
    "type MakeMaybe<", "type FieldWrapper<", "type EntireFieldWrapper<" }

\* C6: with onlyEnums every object, interface, union and input-object
\* definition folds to the empty fragment (no Args declaration either), and
\* the prepend list holds no helper-type definition.
C6_OnlyEnums ==
  config.onlyEnums =>
    /\ \A i \in 1..Len(definitions) :
          doc[i].kind \in {"ObjectTypeDefinition", "InterfaceTypeDefinition",
                           "UnionTypeDefinition", "InputObjectTypeDefinition"}
            => definitions[i] = ""
    /\ \A k \in 1..Len(output.prepend) :
          \A h \in HelperTypeNames : ~Includes(output.prepend[k], h)

C6_Witness ==
  /\ config.onlyEnums
  /\ status = "done"
  /\ doc[1].kind = "ObjectTypeDefinition"
  /\ \E f \in 1..Len(doc[1].fields) : Len(doc[1].fields[f].arguments) > 0

\* the NamedType of a member's or argument's type has just been left: its
\* rendering is in typeEdit and no ListType / NonNullType has rewritten it
NamedTypeJustLeft ==
  /\ status = "running"
  /\ todo # <<>>
  /\ typeEdit.name = NoName
  /\ typeEdit.type # ""
  /\ Head(todo).f > 0
  /\ LET e == Head(todo)
         wraps == OriginalValue(e).type.wraps
     IN IF e.h \in {"ListType", "NonNullType"} THEN e.k = Len(wraps) ELSE wraps = <<>>

\* the renderings the fold may give a reference that resolves to `inner`
WrappedForms(inner) ==
  { "Maybe<" \o inner \o ">", "InputMaybe<" \o inner \o ">",
    "Maybe<FieldWrapper<" \o inner \o ">>" }

\* C7: a name of the scalar map renders as Scalars['<name>'], also when the
\* registry knows it as an enum; else an enum name renders under the enum
\* prefix policy; else the name renders as it is, known to the registry or
\* not; a union member that is a key of the scalar map renders as the
\* container reference too.
C7_ResolutionPriority ==
  /\ NamedTypeJustLeft =>
       LET name == OriginalValue(Head(todo)).type.name
           scalar == \E k \in 1..Len(ScalarsMap(doc)) : ScalarsMap(doc)[k].name = name
           enum == \E k \in 1..Len(doc) :
                      doc[k].kind = "EnumTypeDefinition" /\ doc[k].name = name
       IN IF scalar THEN typeEdit.type \in WrappedForms("Scalars['" \o name \o "']")
          ELSE IF enum
            THEN \E prefix \in {"", config.typesPrefix, config.typesPrefix \o config.typesPrefix} :
                    /\ typeEdit.type \in WrappedForms(prefix \o name)
                    /\ (config.typesPrefix # "" /\ config.enumPrefix # "false") => prefix # ""
          ELSE typeEdit.type \in WrappedForms(name)
  /\ \A i \in 1..Len(definitions) :
        (doc[i].kind = "UnionTypeDefinition" /\ Generated(i)) =>
           \A k \in 1..Len(doc[i].types) :
              LET name == doc[i].types[k]
              IN IF \E x \in 1..Len(doc) :
                       doc[x].kind = "ScalarTypeDefinition" /\ doc[x].name = name
                   THEN Includes(definitions[i], "Scalars['" \o name \o "']")
                   ELSE /\ Includes(definitions[i], name)
                        /\ ~Includes(definitions[i], "Scalars['" \o name \o "']")

\* a reference to a name that is a key of the scalar map and an enum of the
\* registry has been resolved
C7_Witness ==
  /\ NamedTypeJustLeft
  /\ OriginalValue(Head(todo)).type.name = "Int"
  /\ \E k \in 1..Len(doc) : doc[k].kind = "EnumTypeDefinition" /\ doc[k].name = "Int"

\* the wrapper of the context that definition d is folded in
ContextWrapper(d) ==
  IF doc[d].kind = "InputObjectTypeDefinition" THEN "InputMaybe" ELSE "Maybe"

\* C8: NonNullType.leave turns the context's wrapper around a rendered type
\* t, `Maybe<t>` or `InputMaybe<t>`, into exactly t: the outermost wrapper
\* goes, the wrappers inside t stay.
C8_UnwrapIsExact ==
  [][At("NonNullType") =>
       typeEdit.type = ContextWrapper(Current.d) \o "<" \o typeEdit'.type \o ">"]_vars

\* a non-null list of lists in an input object has been unwrapped, the
\* wrapper of the inner list left in place
C8_Witness ==
  /\ status = "running"
  /\ typeEdit.type = "Array<InputMaybe<Array<Scalars['Int']>>>"

\* C9 as stated: the block of an object, interface or plain input-object
\* type has one line per declared field, and one __typename line more
\* unless skipTypename is set.
C9_FieldCountAllKinds ==
  \A i \in 1..Len(definitions) :
     (/\ doc[i].kind \in {"ObjectTypeDefinition", "InterfaceTypeDefinition",
                          "InputObjectTypeDefinition"}
      /\ ~IsOneOfInput(doc[i])
      /\ Generated(i)) =>
        Cardinality(FieldLines(definitions[i]))
          = Len(doc[i].fields) + (IF config.skipTypename THEN 0 ELSE 1)

\* C9 amended: the block has one line per declared field; an object type
\* has one __typename line more unless skipTypename is set; an interface
\* and an input object have none.
C9_FieldCount ==
  \A i \in 1..Len(definitions) :
     (/\ doc[i].kind \in {"ObjectTypeDefinition", "InterfaceTypeDefinition",
                          "InputObjectTypeDefinition"}
      /\ ~IsOneOfInput(doc[i])
      /\ Generated(i)) =>
        LET typenameLines ==
              IF doc[i].kind = "ObjectTypeDefinition" /\ ~config.skipTypename THEN 1 ELSE 0
            lines == Split(definitions[i], "\n")
        IN /\ Cardinality(FieldLines(definitions[i])) = Len(doc[i].fields) + typenameLines
           /\ Cardinality({k \in FieldLines(definitions[i]) :
                             Includes(lines[k], "__typename")}) = typenameLines
           /\ \A f \in 1..Len(doc[i].fields) :
                 Cardinality({k \in FieldLines(definitions[i]) :
                                \/ Includes(lines[k], " " \o doc[i].fields[f].name \o ": ")
                                \/ Includes(lines[k], " " \o doc[i].fields[f].name \o "?: ")})
                   = 1

C9_Witness ==
  \E i \in 1..Len(definitions) :
     /\ doc[i].kind = "ObjectTypeDefinition"
     /\ Len(doc[i].fields) = 2
     /\ Generated(i)
     /\ config.skipTypename

\* C10: in the arm of a oneOf input object where field f is present, the
\* type of f has lost the InputMaybe wrapper of the input context.
C10_ArmTypeIsExact ==
  \A i \in 1..Len(definitions) :
     (OneOfAllNullable(doc[i]) /\ Generated(i)) =>
        \A j \in 1..Len(doc[i].fields) :
           ~Includes(definitions[i], " " \o doc[i].fields[j].name \o ": InputMaybe<")

\* C11: NamedType.leave and ListType.leave wrap their rendering in
\* `InputMaybe<...>` exactly when the reference stands inside an input-object
\* definition and in `Maybe<...>` otherwise, the arguments of object and
\* interface fields included; ListType.leave puts that wrapper around
\* `Array<element>` whatever the element rendering is.
C11_WrapperFollowsContext ==
  [][/\ (At("NamedType") /\ Current.slot \in {"type", "operationType"}) =>
          /\ StartsWith(typeEdit'.type, ContextWrapper(Current.d) \o "<")
          /\ EndsWith(typeEdit'.type, ">")
     /\ (At("NamedType") /\ Current.slot = "interface") =>
          StartsWith(defEdit'.interfaces[Len(defEdit'.interfaces)], "Maybe<")
     /\ (At("NamedType") /\ Current.slot = "unionMember") =>
          StartsWith(defEdit'.types[Len(defEdit'.types)], "Maybe<")
     /\ At("ListType") =>
          typeEdit'.type
            = ContextWrapper(Current.d) \o "<Array<" \o typeEdit.type \o ">>"]_vars

\* the list type of an argument of an object or interface field has been
\* wrapped, around an element that is wrapped itself
C11_Witness ==
  /\ status = "running"
  /\ todo # <<>>
  /\ Current.a > 0
  /\ doc[Current.d].kind \in {"ObjectTypeDefinition", "InterfaceTypeDefinition"}
  /\ typeEdit.type = "Maybe<Array<Maybe<Scalars['Int']>>>"

\* avoidOptionals suppresses the optional marker of the members of def
MarkerSuppressed(def) ==
  \/ config.avoidOptionals.tag = "true"
  \/ /\ config.avoidOptionals.tag = "object"
     /\ IF def.kind = "InputObjectTypeDefinition"
          THEN config.avoidOptionals.inputValue ELSE config.avoidOptionals.field

\* the line of member `name` in the fragment carries the optional marker
HasOptionalMarker(fragment, name) == Includes(fragment, " " \o name \o "?: ")

\* C12: a field line, and an input value line without a default value,
\* carries `?` exactly when the original type node of the member is not a
\* non-null type and avoidOptionals does not suppress the marker, be it the
\* per-kind object with the matching kind set or the blanket flag `true`.
C12_OptionalMarker ==
  \A i \in 1..Len(definitions) :
     (/\ doc[i].kind \in {"ObjectTypeDefinition", "InterfaceTypeDefinition",
                          "InputObjectTypeDefinition"}
      /\ ~IsOneOfInput(doc[i])
      /\ Generated(i)) =>
        \A f \in 1..Len(doc[i].fields) :
           ~doc[i].fields[f].hasDefault =>
              (HasOptionalMarker(definitions[i], doc[i].fields[f].name)
                 <=> (~IsNonNull(doc[i].fields[f]) /\ ~MarkerSuppressed(doc[i])))

\* the schema declares a oneOf input object that has a non-null field
OneOfWithNonNullField ==
  \E i \in 1..Len(doc) :
     IsOneOfInput(doc[i]) /\ \E f \in 1..Len(doc[i].fields) : IsNonNull(doc[i].fields[f])

\* C13: the oneOf treatment is applied to the fields of oneOf input objects
\* only: the fold raises for nothing else, and an argument of an object or
\* interface field, or of a directive definition, is rendered as an ordinary
\* line and not as a union arm, also when the field or the directive is
\* named like a oneOf input object of the schema.
C13_OneOfOnlyForInputFields ==
  /\ status = "raised" => OneOfWithNonNullField
  /\ \A k \in 1..Len(memberEdit.arguments) : ~Includes(memberEdit.arguments[k], "{ ")
  /\ (status = "running" /\ todo # <<>> /\ doc[Current.d].kind = "DirectiveDefinition")
       => \A k \in 1..Len(defEdit.fields) : ~Includes(defEdit.fields[k], "{ ")

\* the prepend list holds the definition of the wrapper type `name`
PrependDefines(name) ==
  \E k \in 1..Len(output.prepend) : Includes(output.prepend[k], "type " \o name \o "<T> = ")

\* C14: with onlyEnums off, a wrapper type that the content refers to is
\* defined in the prepend list: `EntireFieldWrapper<...>` around the type of
\* a field line, and `FieldWrapper<...>` around a type reference.
C14_WrappersAreDefined ==
  (output.produced /\ ~config.onlyEnums) =>
     /\ Includes(output.content, ": EntireFieldWrapper<") => PrependDefines("EntireFieldWrapper")
     /\ Includes(output.content, "<FieldWrapper<") => PrependDefines("FieldWrapper")

====
